---- MODULE Spec2Model ----
(***************************************************************************)
(* Model of backend/utils/textChunker.js: chunkText (word-window chunker)  *)
(* and findRelevantChunks (lexical ranker).                                *)
(*                                                                         *)
(* A JavaScript string is a sequence of one-character strings.  Each call  *)
(* of chunkText runs as a small state machine whose program counter pc     *)
(* walks idle -> start -> loop -> window -> .. -> done; a call of         *)
(* findRelevantChunks walks rpc through idle -> start -> score -> select  *)
(* -> done, or ends in threw when building a RegExp raises.                *)
(***************************************************************************)
EXTENDS Integers, Sequences, FiniteSets, TLC

\* ------------------------------------------------------------------ bounds
MaxLen == 7          \* longest input text, in characters
MaxChunkSize == 2    \* largest chunkSize argument tried

\* characters an input text is made of
Alphabet == {"a", "b", " ", "\n"}

\* what the regular-expression class \s matches
WhiteSpace == {" ", "\n", "\r", "\t"}

Min(a, b) == IF a < b THEN a ELSE b
Max(a, b) == IF a > b THEN a ELSE b

\* no call emits more chunks than the text has characters
MaxChunks == MaxLen + 1

\* F applied to the value of x: a method call on an evaluated receiver
Then(F(_), x) == CHOOSE r \in {F(y) : y \in {x}} : TRUE

\* ------------------------------------------------------- string primitives
RECURSIVE TrimStart(_)
TrimStart(s) ==
  IF s = <<>> THEN <<>>
  ELSE IF Head(s) \in WhiteSpace THEN TrimStart(Tail(s)) ELSE s

RECURSIVE TrimEnd(_)
TrimEnd(s) ==
  IF s = <<>> THEN <<>>
  ELSE IF s[Len(s)] \in WhiteSpace THEN TrimEnd(SubSeq(s, 1, Len(s) - 1)) ELSE s

\* String.prototype.trim
Trim(s) == TrimEnd(TrimStart(s))

\* replace(/\r\n/g, "\n")
RECURSIVE ReplaceCRLF(_)
ReplaceCRLF(s) ==
  IF Len(s) < 2 THEN s
  ELSE IF s[1] = "\r" /\ s[2] = "\n"
       THEN <<"\n">> \o ReplaceCRLF(SubSeq(s, 3, Len(s)))
       ELSE <<s[1]>> \o ReplaceCRLF(Tail(s))

\* faulty variant: newlines are kept, only runs of other whitespace collapse
RECURSIVE CollapseSpacesOnly(_)
CollapseSpacesOnly(s) ==
  IF s = <<>> THEN <<>>
  ELSE IF Head(s) = "\n" THEN <<"\n">> \o CollapseSpacesOnly(Tail(s))
  ELSE IF Head(s) \in WhiteSpace
       THEN IF Len(s) > 1 /\ s[2] \in WhiteSpace \ {"\n"}
            THEN CollapseSpacesOnly(Tail(s))
            ELSE <<" ">> \o CollapseSpacesOnly(Tail(s))
       ELSE <<Head(s)>> \o CollapseSpacesOnly(Tail(s))

\* replace(/\s+/g, " "): every maximal run of whitespace becomes one space
RECURSIVE CollapseWhitespace(_)
CollapseWhitespace(s) ==
  IF s = <<>> THEN <<>>
  ELSE IF Head(s) \in WhiteSpace
       THEN <<" ">> \o CollapseWhitespace(TrimStart(s))
       ELSE <<Head(s)>> \o CollapseWhitespace(Tail(s))

\* replace(/\n /g, "\n")
RECURSIVE ReplaceNewlineSpace(_)
ReplaceNewlineSpace(s) ==
  IF Len(s) < 2 THEN s
  ELSE IF s[1] = "\n" /\ s[2] = " "
       THEN <<"\n">> \o ReplaceNewlineSpace(SubSeq(s, 3, Len(s)))
       ELSE <<s[1]>> \o ReplaceNewlineSpace(Tail(s))

\* replace(/ \n/g, "\n")
RECURSIVE ReplaceSpaceNewline(_)
ReplaceSpaceNewline(s) ==
  IF Len(s) < 2 THEN s
  ELSE IF s[1] = " " /\ s[2] = "\n"
       THEN <<"\n">> \o ReplaceSpaceNewline(SubSeq(s, 3, Len(s)))
       ELSE <<s[1]>> \o ReplaceSpaceNewline(Tail(s))

\* String.prototype.split on a regular expression [Sep]+ : the pieces between
\* maximal runs of separator characters, empty pieces at the ends included
RECURSIVE SplitFrom(_, _, _, _)
SplitFrom(s, Sep, k, cur) ==
  IF k > Len(s) THEN <<cur>>
  ELSE IF s[k] \in Sep
       THEN IF k > 1 /\ s[k - 1] \in Sep
            THEN SplitFrom(s, Sep, k + 1, cur)
            ELSE <<cur>> \o SplitFrom(s, Sep, k + 1, <<>>)
       ELSE SplitFrom(s, Sep, k + 1, Append(cur, s[k]))

\* split(/\s+/)
SplitWhitespace(s) == SplitFrom(s, WhiteSpace, 1, <<>>)

\* split(/\n+/)
SplitNewlines(s) == SplitFrom(s, {"\n"}, 1, <<>>)

\* Array.prototype.join
RECURSIVE Join(_, _)
Join(parts, sep) ==
  IF parts = <<>> THEN <<>>
  ELSE IF Len(parts) = 1 THEN parts[1]
  ELSE parts[1] \o sep \o Join(Tail(parts), sep)

\* Array.prototype.slice(from, to) with 0-based, end-exclusive indices
Slice(arr, from, to) ==
  LET lo == IF from < 0 THEN Max(Len(arr) + from, 0) ELSE Min(from, Len(arr))
      hi == IF to < 0 THEN Max(Len(arr) + to, 0) ELSE Min(to, Len(arr))
  IN  IF lo >= hi THEN <<>> ELSE SubSeq(arr, lo + 1, hi)

\* Array.prototype.slice(-n): the last n elements; -0 is 0, so n = 0 keeps all
SliceLast(arr, n) == IF n = 0 THEN arr ELSE Slice(arr, 0 - n, Len(arr))

\* ---------------------------------------------------------------- chunkText
\* the guard of the early return: !text || text.trim().length === 0
IsBlank(t) == Len(t) = 0 \/ Len(Trim(t)) = 0

\* lines 6-11: the chain of replacements, each applied to the value of the
\* one before (Then evaluates its argument once before applying F)
CleanText(t) ==
  Then(Trim, Then(ReplaceSpaceNewline, Then(ReplaceNewlineSpace,
    Then(CollapseWhitespace, Then(ReplaceCRLF, t)))))

NonBlank(p) == Len(Trim(p)) > 0

\* split(/\n+/).filter((p) => p.trim().length > 0)
Paragraphs(cleaned) == SelectSeq(SplitNewlines(cleaned), NonBlank)

\* paragraph.trim().split(/\s+/)
ParagraphWords(p) == Then(SplitWhitespace, Then(Trim, p))

\* the object literal pushed on chunks
MakeChunk(content, index) ==
  [content |-> content, chunkIndex |-> index, pageNumber |-> 0]

\* faulty variant: the index is not incremented
NextIndexSame(index) == index

\* chunkIndex++ : the index the next chunk gets
NextIndex(index) == index + 1

\* faulty variant: a loop that does not advance
StrideStuck(cs, ov) == ov - ov

\* faulty variant: the windows do not overlap
StrideNoOverlap(cs, ov) == cs

\* the increment of both sliding-window loops: i += chunkSize - overlap
Stride(cs, ov) == cs - ov

\* faulty variant: a window one word too long
WindowWordsWide(words, from, cs) == Slice(words, from, from + cs + 1)

\* paragraphWords.slice(i, i + chunkSize)
WindowWords(words, from, cs) == Slice(words, from, from + cs)

\* faulty variant: the break test misses the window ending exactly at W
WindowIsLastStrict(words, from, cs) == from + cs > Len(words)

\* the break test of both sliding-window loops
WindowIsLast(words, from, cs) == from + cs >= Len(words)

VARIABLES
  text, chunkSize, overlap,        \* arguments of chunkText
  pc,                              \* position in chunkText
  cleanedText, paragraphs, pIdx,   \* normalised text, its paragraphs, loop index
  chunks, currentChunk, currentWordCount, chunkIndex,
  loop, winWords, i,               \* the running sliding-window loop
  winBase, winCount                \* observers: chunks before the loop, windows emitted

VARIABLES
  rChunks, query, topK,            \* arguments of findRelevantChunks
  chunksAbsent, queryAbsent,       \* the argument is null or undefined
  rpc,                             \* position in findRelevantChunks
  queryWords, scored, result,      \* its locals and its return value
  inChunks                         \* observer: the chunks array as passed in

rankVars == <<rChunks, query, topK, chunksAbsent, queryAbsent, rpc,
              queryWords, scored, result, inChunks>>

chunkVars == <<text, chunkSize, overlap, pc, cleanedText, paragraphs, pIdx,
               chunks, currentChunk, currentWordCount, chunkIndex,
               loop, winWords, i, winBase, winCount>>

vars == <<chunkVars, rankVars>>

Texts == UNION {[1..n -> Alphabet] : n \in 0..MaxLen}

\* before the call: no argument bound, no local initialised
Init ==
  /\ text = <<>>
  /\ chunkSize = 1
  /\ overlap = 0
  /\ pc = "idle"
  /\ cleanedText = <<>>
  /\ paragraphs = <<>>
  /\ pIdx = 1
  /\ chunks = <<>>
  /\ currentChunk = <<>>
  /\ currentWordCount = 0
  /\ chunkIndex = 0
  /\ loop = "none"
  /\ winWords = <<>>
  /\ i = 0
  /\ winBase = 0
  /\ winCount = 0
  /\ rChunks = <<>>
  /\ query = <<>>
  /\ topK = 0
  /\ chunksAbsent = FALSE
  /\ queryAbsent = FALSE
  /\ rpc = "idle"
  /\ queryWords = <<>>
  /\ scored = <<>>
  /\ result = <<>>
  /\ inChunks = <<>>

\* the (chunkSize, overlap) pairs a text is chunked with: chunkSize > overlap
\* >= 0, and any pair for a blank text, which returns before using them
ChunkParams(t) ==
  IF IsBlank(t)
  THEN (0..MaxChunkSize) \X (0..MaxChunkSize)
  ELSE {p \in (1..MaxChunkSize) \X (0..MaxChunkSize) : p[1] > p[2]}

\* line 1: a call chunkText(text, chunkSize, overlap)
Call ==
  /\ UNCHANGED rankVars
  /\ pc = "idle"
  /\ text' \in Texts
  /\ \E p \in ChunkParams(text') : chunkSize' = p[1] /\ overlap' = p[2]
  /\ pc' = "start"
  /\ UNCHANGED <<cleanedText, paragraphs, pIdx, chunks, currentChunk,
                 currentWordCount, chunkIndex, loop, winWords, i,
                 winBase, winCount>>

\* lines 2-20: early return on blank text, normalisation, paragraph split
Start ==
  /\ UNCHANGED rankVars
  /\ pc = "start"
  /\ IF IsBlank(text)
     THEN /\ pc' = "done"
          /\ UNCHANGED <<cleanedText, paragraphs>>
     ELSE /\ cleanedText' = CleanText(text)
          /\ paragraphs' = Paragraphs(cleanedText')
          /\ pc' = "loop"
  /\ UNCHANGED <<text, chunkSize, overlap, pIdx, chunks, currentChunk,
                 currentWordCount, chunkIndex, loop, winWords, i,
                 winBase, winCount>>

\* lines 22-37: a paragraph longer than chunkSize flushes the pending chunk
\* and enters the sliding-window loop at i = 0
ParagraphOversized ==
  /\ UNCHANGED rankVars
  /\ pc = "loop"
  /\ pIdx <= Len(paragraphs)
  /\ LET paragraphWords == ParagraphWords(paragraphs[pIdx])
     IN  /\ Len(paragraphWords) > chunkSize
         /\ IF Len(currentChunk) > 0
            THEN /\ chunks' = Append(chunks,
                        MakeChunk(Join(currentChunk, <<"\n", "\n">>), chunkIndex))
                 /\ chunkIndex' = NextIndex(chunkIndex)
                 /\ currentChunk' = <<>>
                 /\ currentWordCount' = 0
            ELSE UNCHANGED <<chunks, chunkIndex, currentChunk, currentWordCount>>
         /\ winWords' = paragraphWords
         /\ loop' = "paragraph"
         /\ i' = 0
         /\ pc' = "window"
         /\ winBase' = Len(chunks')
         /\ winCount' = 0
  /\ UNCHANGED <<text, chunkSize, overlap, cleanedText, paragraphs, pIdx>>

\* lines 38-51 and 90-98: one iteration of a sliding-window loop
Window ==
  /\ UNCHANGED rankVars
  /\ pc = "window"
  /\ Len(chunks) < MaxChunks
  /\ chunks' = Append(chunks,
        MakeChunk(Join(WindowWords(winWords, i, chunkSize), <<" ">>), chunkIndex))
  /\ chunkIndex' = NextIndex(chunkIndex)
  /\ winCount' = winCount + 1
  /\ LET next == i + Stride(chunkSize, overlap)
         leave == WindowIsLast(winWords, i, chunkSize) \/ ~(next < Len(winWords))
     IN  /\ i' = IF WindowIsLast(winWords, i, chunkSize) THEN i ELSE next
         /\ IF leave
            THEN IF loop = "paragraph"
                 THEN pc' = "loop" /\ pIdx' = pIdx + 1
                 ELSE pc' = "done" /\ pIdx' = pIdx
            ELSE pc' = "window" /\ pIdx' = pIdx
  /\ UNCHANGED <<text, chunkSize, overlap, cleanedText, paragraphs,
                 currentChunk, currentWordCount, loop, winWords, winBase>>

\* lines 55-77: a paragraph that fits is packed; when it would overflow the
\* pending chunk, that chunk is emitted and the next one seeded with overlap
ParagraphPack ==
  /\ UNCHANGED rankVars
  /\ pc = "loop"
  /\ pIdx <= Len(paragraphs)
  /\ LET paragraph == paragraphs[pIdx]
         paragraphWordCount == Len(ParagraphWords(paragraph))
     IN  /\ ~(paragraphWordCount > chunkSize)
         /\ IF currentWordCount + paragraphWordCount > chunkSize
               /\ Len(currentChunk) > 0
            THEN LET prevWords == SplitWhitespace(Join(currentChunk, <<" ">>))
                     overlapText ==
                       Join(SliceLast(prevWords, Min(overlap, Len(prevWords))), <<" ">>)
                 IN  /\ chunks' = Append(chunks,
                            MakeChunk(Join(currentChunk, <<"\n", "\n">>), chunkIndex))
                     /\ chunkIndex' = NextIndex(chunkIndex)
                     /\ currentChunk' = <<overlapText, Trim(paragraph)>>
                     /\ currentWordCount' =
                          Len(SplitWhitespace(overlapText)) + paragraphWordCount
            ELSE /\ currentChunk' = Append(currentChunk, Trim(paragraph))
                 /\ currentWordCount' = currentWordCount + paragraphWordCount
                 /\ UNCHANGED <<chunks, chunkIndex>>
  /\ pIdx' = pIdx + 1
  /\ UNCHANGED <<text, chunkSize, overlap, pc, cleanedText, paragraphs,
                 loop, winWords, i, winBase, winCount>>

\* lines 80-101: emit the pending chunk; with no chunk at all and a non-empty
\* cleaned text enter the whole-text sliding-window loop, otherwise return
Finish ==
  /\ UNCHANGED rankVars
  /\ pc = "loop"
  /\ pIdx > Len(paragraphs)
  /\ chunks' = IF Len(currentChunk) > 0
               THEN Append(chunks,
                      MakeChunk(Join(currentChunk, <<"\n", "\n">>), chunkIndex))
               ELSE chunks
  /\ IF Len(chunks') = 0 /\ Len(cleanedText) > 0
        /\ 0 < Len(SplitWhitespace(cleanedText))
     THEN /\ winWords' = SplitWhitespace(cleanedText)
          /\ loop' = "fallback"
          /\ i' = 0
          /\ pc' = "window"
          /\ winBase' = Len(chunks')
          /\ winCount' = 0
     ELSE /\ pc' = "done"
          /\ UNCHANGED <<winWords, loop, i, winBase, winCount>>
  /\ UNCHANGED <<text, chunkSize, overlap, cleanedText, paragraphs, pIdx,
                 currentChunk, currentWordCount, chunkIndex>>

Next == Call \/ Start \/ ParagraphOversized \/ Window \/ ParagraphPack \/ Finish

Spec == Init /\ [][Next]_vars

\* a call is a sequential computation: it keeps running until it returns
FairSpec == Spec /\ WF_vars(Next)

\* ------------------------------------------------------- findRelevantChunks
MaxChunkCount == 3   \* longest chunks array passed to findRelevantChunks
MaxQueryWords == 2   \* most words a query is made of
MaxTopK == 2         \* largest topK argument tried

\* lines 107-136
stopWords ==
  {<<"w", "h", "a", "t">>, <<"i", "s">>, <<"t", "h", "e">>, <<"o", "f">>,
   <<"a", "s">>, <<"i", "n">>, <<"a">>, <<"a", "n">>, <<"a", "n", "d">>,
   <<"o", "r">>, <<"t", "o">>, <<"t", "h", "a", "t">>, <<"t", "h", "i", "s">>,
   <<"i", "t">>, <<"f", "o", "r">>, <<"o", "n">>, <<"a", "r", "e">>,
   <<"w", "a", "s">>, <<"w", "i", "t", "h">>, <<"b", "y">>, <<"a", "t">>,
   <<"f", "r", "o", "m">>, <<"s", "t", "a", "t", "e", "d">>,
   <<"t", "e", "x", "t">>, <<"m", "e">>, <<"t", "e", "l", "l">>,
   <<"a", "b", "o", "u", "t">>, <<"d", "o", "e", "s">>}

\* String.prototype.toLowerCase on one character
ToLowerChar(c) ==
  CASE
       c = "A" -> "a"
    [] c = "B" -> "b"
    [] c = "C" -> "c"
    [] c = "D" -> "d"
    [] c = "E" -> "e"
    [] c = "F" -> "f"
    [] c = "G" -> "g"
    [] c = "H" -> "h"
    [] c = "I" -> "i"
    [] c = "J" -> "j"
    [] c = "K" -> "k"
    [] c = "L" -> "l"
    [] c = "M" -> "m"
    [] c = "N" -> "n"
    [] c = "O" -> "o"
    [] c = "P" -> "p"
    [] c = "Q" -> "q"
    [] c = "R" -> "r"
    [] c = "S" -> "s"
    [] c = "T" -> "t"
    [] c = "U" -> "u"
    [] c = "V" -> "v"
    [] c = "W" -> "w"
    [] c = "X" -> "x"
    [] c = "Y" -> "y"
    [] c = "Z" -> "z"
    [] OTHER -> c

ToLower(str) == [k \in 1..Len(str) |-> ToLowerChar(str[k])]

\* the words a query is typed from: plain, upper case, a stop word, a word
\* of two letters, and words holding the characters '.' and '('
QueryWordPool ==
  {<<"a", "b", "a">>, <<"A", "B", "A">>, <<"b", "b", "b">>, <<"t", "h", "e">>,
   <<"a", "b">>, <<"a", ".", "a">>, <<"a", "b", "(">>}

Queries ==
  {Join(ws, <<" ">>) : ws \in UNION {[1..n -> QueryWordPool] : n \in 0..MaxQueryWords}}

\* the contents a chunk is given
ContentPool ==
  {<<"a", "b", "a">>, <<"A", "B", "A", " ", "a", "b", "a">>, <<"a", ".", "a">>}

\* a score field a caller's chunk may already carry
PriorScores == {1, 2}

\* a chunk object as the ranker sees it; hasScore tells whether the object
\* has a score property (score is 0 when it has none)
RankChunk(content, index, hasScore, score) ==
  [content |-> content, chunkIndex |-> index, pageNumber |-> 0,
   hasScore |-> hasScore, score |-> score]

\* the chunks arrays passed in: chunks as chunkText makes them (no score), or
\* chunks that all carry a score already; chunkIndex follows the position
ChunkLists ==
  UNION {
    {[k \in 1..n |-> RankChunk(cs[k], k - 1, FALSE, 0)] : cs \in [1..n -> ContentPool]}
    \cup
    {[k \in 1..n |-> RankChunk(cs[k], k - 1, TRUE, ps[k])] :
        cs \in [1..n -> ContentPool], ps \in [1..n -> PriorScores]}
    : n \in 0..MaxChunkCount}

\* line 141: the filter on the lower-cased words of the query
KeepWord(w) == Len(w) > 2 /\ w \notin stopWords

\* lines 138-141
QueryWords(q) == SelectSeq(SplitWhitespace(ToLower(q)), KeepWord)

\* new RegExp(word, "gi") throws a SyntaxError on an unterminated group; the
\* words of the model hold no ')', so every '(' opens one
RegexCompiles(word) == \A k \in 1..Len(word) : word[k] # "("

\* one pattern character against one content character under the i flag:
\* '.' matches any character but a line terminator, a letter matches itself
AtomMatches(p, c) ==
  IF p = "." THEN c \notin {"\n", "\r"} ELSE ToLowerChar(p) = ToLowerChar(c)

RegexMatchesAt(word, content, pos) ==
  /\ pos + Len(word) - 1 <= Len(content)
  /\ \A k \in 1..Len(word) : AtomMatches(word[k], content[pos + k - 1])

\* content.match(new RegExp(word, "gi")).length: the matches found scanning
\* from the left, each search resuming after the previous match
RECURSIVE RegexMatchCount(_, _, _)
RegexMatchCount(word, content, pos) ==
  IF pos + Len(word) - 1 > Len(content) THEN 0
  ELSE IF RegexMatchesAt(word, content, pos)
       THEN 1 + RegexMatchCount(word, content, pos + Len(word))
       ELSE RegexMatchCount(word, content, pos + 1)

\* lines 148-152: queryWords.reduce((acc, word) => acc + matches, 0)
RECURSIVE ChunkScore(_, _)
ChunkScore(words, content) ==
  IF words = <<>> THEN 0
  ELSE RegexMatchCount(Head(words), content, 1) + ChunkScore(Tail(words), content)

\* line 153: { ...chunk, score }
Decorate(chunk, score) == [chunk EXCEPT !.hasScore = TRUE, !.score = score]

\* line 160: (a, b) => b.score - a.score; a missing score gives NaN, which
\* sort takes as 0
Compare(a, b) == IF a.hasScore /\ b.hasScore THEN b.score - a.score ELSE 0

\* faulty variant: an unstable sort, x overtakes elements of equal score
RECURSIVE InsertBeforeTies(_, _)
InsertBeforeTies(sorted, x) ==
  IF sorted = <<>> THEN <<x>>
  ELSE IF Compare(Head(sorted), x) >= 0 THEN <<x>> \o sorted
       ELSE <<Head(sorted)>> \o InsertBeforeTies(Tail(sorted), x)

\* Array.prototype.sort is stable: x goes before the first element that the
\* comparator orders after it
RECURSIVE InsertSorted(_, _)
InsertSorted(sorted, x) ==
  IF sorted = <<>> THEN <<x>>
  ELSE IF Compare(Head(sorted), x) > 0 THEN <<x>> \o sorted
       ELSE <<Head(sorted)>> \o InsertSorted(Tail(sorted), x)

RECURSIVE SortByScore(_)
SortByScore(arr) ==
  IF arr = <<>> THEN <<>>
  ELSE InsertSorted(SortByScore(SubSeq(arr, 1, Len(arr) - 1)), arr[Len(arr)])

\* faulty variant: the slice is forgotten
TopSliceAll(arr, k) == arr

\* .slice(0, topK)
TopSlice(arr, k) == Slice(arr, 0, k)

HasPositiveScore(c) == c.score > 0

\* faulty variant: the test of the query is forgotten
ReturnsEarlyChunksOnly(cAbsent, cs, qAbsent, q) == cAbsent \/ Len(cs) = 0

\* line 105: !chunks || chunks.length === 0 || !query
ReturnsEarly(cAbsent, cs, qAbsent, q) ==
  cAbsent \/ Len(cs) = 0 \/ qAbsent \/ Len(q) = 0

\* line 104: a call findRelevantChunks(chunks, query, topK); an absent
\* argument is kept as the empty value

RankCall ==
  /\ UNCHANGED chunkVars
  /\ rpc = "idle"
  /\ chunksAbsent' \in BOOLEAN
  /\ queryAbsent' \in BOOLEAN
  /\ rChunks' \in IF chunksAbsent' THEN {<<>>} ELSE ChunkLists
  /\ query' \in IF queryAbsent' THEN {<<>>} ELSE Queries
  /\ topK' \in 0..MaxTopK
  /\ inChunks' = rChunks'
  /\ rpc' = "start"
  /\ UNCHANGED <<queryWords, scored, result>>

\* lines 105-144: the early returns and the tokenisation of the query
RankStart ==
  /\ UNCHANGED chunkVars
  /\ rpc = "start"
  /\ IF ReturnsEarly(chunksAbsent, rChunks, queryAbsent, query)
     THEN /\ result' = <<>>
          /\ rpc' = "done"
          /\ UNCHANGED queryWords
     ELSE /\ queryWords' = QueryWords(query)
          /\ IF Len(queryWords') = 0
             THEN result' = TopSlice(rChunks, topK) /\ rpc' = "done"
             ELSE result' = result /\ rpc' = "score"
  /\ UNCHANGED <<rChunks, query, topK, chunksAbsent, queryAbsent, scored, inChunks>>

\* lines 146-154: score every chunk; building a RegExp may throw
RankScore ==
  /\ UNCHANGED chunkVars
  /\ rpc = "score"
  /\ IF \E k \in 1..Len(queryWords) : ~RegexCompiles(queryWords[k])
     THEN /\ rpc' = "threw"
          /\ UNCHANGED scored
     ELSE /\ scored' = [k \in 1..Len(rChunks) |->
                          Decorate(rChunks[k], ChunkScore(queryWords, ToLower(rChunks[k].content)))]
          /\ rpc' = "select"
  /\ UNCHANGED <<rChunks, query, topK, chunksAbsent, queryAbsent, queryWords,
                 result, inChunks>>

\* lines 156-161: filter, sort in place (the filtered copy, or the caller's
\* array when nothing scored), slice
RankSelect ==
  /\ UNCHANGED chunkVars
  /\ rpc = "select"
  /\ LET filtered == SelectSeq(scored, HasPositiveScore)
     IN  IF Len(filtered) > 0
         THEN /\ result' = TopSlice(SortByScore(filtered), topK)
              /\ UNCHANGED rChunks
         ELSE /\ rChunks' = SortByScore(rChunks)
              /\ result' = TopSlice(rChunks', topK)
  /\ rpc' = "done"
  /\ UNCHANGED <<query, topK, chunksAbsent, queryAbsent, queryWords, scored,
                 inChunks>>

RankNext == RankCall \/ RankStart \/ RankScore \/ RankSelect

RankSpec == Init /\ [][RankNext]_vars

\* one call of either function
AnyCallNext == (rpc = "idle" /\ Next) \/ (pc = "idle" /\ RankNext)

AnyCallSpec == Init /\ [][AnyCallNext]_vars

\* ------------------------------------------------------ chunkText properties
\* number of whitespace-separated words of a chunk's content
WordCount(content) ==
  IF Len(Trim(content)) = 0 THEN 0 ELSE Len(SplitWhitespace(Trim(content)))

CeilDiv(a, b) == (a + b - 1) \div b

\* C1: for a non-blank text the returned sequence is non-empty and the
\* chunkIndex values are 0, 1, ..., n-1 in emission order.
C1_ContiguousIndices ==
  (pc # "idle" /\ ~IsBlank(text)) =>
    /\ \A k \in 1..Len(chunks) : chunks[k].chunkIndex = k - 1
    /\ pc = "done" => Len(chunks) >= 1

C1_Witness ==
  /\ pc = "done"
  /\ Len(chunks) >= 3
  /\ chunks[3].chunkIndex = 2

\* C2: every emitted chunk holds at most chunkSize whitespace-separated words.
C2_ChunkWithinSize ==
  \A k \in 1..Len(chunks) : WordCount(chunks[k].content) <= chunkSize

C2_Witness ==
  /\ pc = "done"
  /\ Len(paragraphs) = 1
  /\ Len(ParagraphWords(paragraphs[1])) > chunkSize
  /\ \E k \in 1..Len(chunks) : WordCount(chunks[k].content) = chunkSize
  /\ \E k \in 1..Len(chunks) : WordCount(chunks[k].content) < chunkSize

\* C3: the sliding window over a paragraph of W > chunkSize words emits
\* ceil((W - chunkSize) / (chunkSize - overlap)) + 1 windows, window k holds
\* words [k*stride, min(k*stride + chunkSize, W)), and the last one ends at W.
C3_WindowCount ==
  loop = "paragraph" =>
    LET W == Len(winWords)
        stride == chunkSize - overlap
    IN  /\ W > chunkSize
        /\ \A k \in 0..(winCount - 1) :
              /\ winBase + k + 1 <= Len(chunks)
              /\ chunks[winBase + k + 1].content =
                    Join(SubSeq(winWords, k * stride + 1,
                                Min(k * stride + chunkSize, W)), <<" ">>)
        /\ pc # "window" =>
              /\ winCount = CeilDiv(W - chunkSize, stride) + 1
              /\ (winCount - 1) * stride + chunkSize >= W
              /\ (winCount - 1) * stride < W

C3_Witness ==
  /\ loop = "paragraph"
  /\ pc = "done"
  /\ winCount = 3
  /\ overlap = 1
  /\ Len(winWords) = 4

\* the paragraphs of the input: its non-blank pieces between runs of newlines
InputParagraphs(t) == SelectSeq(SplitNewlines(ReplaceCRLF(t)), NonBlank)

\* C4: a text of two or more non-empty paragraphs separated by newlines is
\* split into those paragraphs, and a chunk packing several paragraphs joins
\* them with a blank line.
C4_ParagraphsPreserved ==
  (pc \notin {"idle", "start"} /\ Len(InputParagraphs(text)) >= 2) =>
    /\ Len(paragraphs) = Len(InputParagraphs(text))
    /\ \A k \in 1..Len(paragraphs) :
          paragraphs[k] = CleanText(InputParagraphs(text)[k])
    /\ (pc = "done" /\ WordCount(cleanedText) <= chunkSize) =>
          chunks = <<MakeChunk(Join(paragraphs, <<"\n", "\n">>), 0)>>

\* C5: every call with chunkSize > overlap >= 0 returns.
C5_Terminates == <>(pc = "done")

C5_Witness ==
  /\ pc = "done"
  /\ loop = "paragraph"
  /\ winCount >= 2
  /\ i > 0

\* the cap on Window never stops a loop that the code would continue
WindowNeverCapped == pc = "window" => Len(chunks) < MaxChunks

\* ---------------------------------------------- findRelevantChunks properties
\* occurrences of word in content as a literal string, letter case ignored,
\* counted from the left without overlap
LiteralMatchesAt(word, content, pos) ==
  /\ pos + Len(word) - 1 <= Len(content)
  /\ \A k \in 1..Len(word) : ToLowerChar(word[k]) = ToLowerChar(content[pos + k - 1])

RECURSIVE LiteralCount(_, _, _)
LiteralCount(word, content, pos) ==
  IF pos + Len(word) - 1 > Len(content) THEN 0
  ELSE IF LiteralMatchesAt(word, content, pos)
       THEN 1 + LiteralCount(word, content, pos + Len(word))
       ELSE LiteralCount(word, content, pos + 1)

RECURSIVE LiteralScore(_, _)
LiteralScore(words, content) ==
  IF words = <<>> THEN 0
  ELSE LiteralCount(Head(words), content, 1) + LiteralScore(Tail(words), content)

\* positions of the chunks that scored above 0
Positives == {k \in 1..Len(scored) : scored[k].score > 0}

\* a ranks before b: higher score, or equal score and earlier in the input
\* (chunkIndex is the position in the input array)
RanksBefore(a, b) ==
  a.score > b.score \/ (a.score = b.score /\ a.chunkIndex < b.chunkIndex)

\* C6: with a non-empty token list, the score computed for a chunk is the sum
\* over the tokens of the literal, case-insensitive occurrences of the token in
\* the content, whatever characters the token holds.
C6_LiteralScore ==
  (rpc \in {"select", "done", "threw"} /\ queryWords # <<>>) =>
    /\ rpc # "threw"
    /\ Len(scored) = Len(inChunks)
    /\ \A k \in 1..Len(scored) :
          scored[k].score = LiteralScore(queryWords, inChunks[k].content)

\* C7: with a surviving token and a chunk that scored above 0, the result is
\* the first topK of the positive-score chunks in descending score order,
\* equal scores in input order.
C7_SortedTopK ==
  (rpc = "done" /\ queryWords # <<>> /\ Positives # {}) =>
    /\ Len(result) = Min(topK, Cardinality(Positives))
    /\ \A j \in 1..Len(result) : \E k \in Positives : result[j] = scored[k]
    /\ \A j \in 1..(Len(result) - 1) : RanksBefore(result[j], result[j + 1])
    /\ \A k \in Positives :
          (\A j \in 1..Len(result) : result[j] # scored[k]) =>
            \A j \in 1..Len(result) : RanksBefore(result[j], scored[k])

C7_Witness ==
  /\ rpc = "done"
  /\ Cardinality(Positives) = 3
  /\ Len(result) = 2
  /\ result[1].score > result[2].score
  /\ \E k \in Positives :
        /\ scored[k].score = result[2].score
        /\ scored[k].chunkIndex > result[2].chunkIndex

\* C8: for a non-empty chunk list and a non-empty query the result has
\* min(topK, c) elements, c the number of chunks scoring above 0 or, when there
\* is none or no token survives, the number of chunks; it is not empty when
\* topK >= 1.
C8_ResultLength ==
  (rpc = "done" /\ Len(inChunks) > 0 /\ Len(query) > 0) =>
    /\ Len(result) =
         Min(topK, IF Positives # {} THEN Cardinality(Positives) ELSE Len(inChunks))
    /\ topK >= 1 => Len(result) >= 1

C8_Witness ==
  /\ rpc = "done"
  /\ queryWords # <<>>
  /\ Positives = {}
  /\ topK >= 1
  /\ Len(result) = topK
  /\ Len(inChunks) > topK

\* C9: with a surviving token every returned element carries a score equal to
\* its match count, also when no chunk scored above 0.
C9_ResultsScored ==
  (rpc = "done" /\ queryWords # <<>>) =>
    \A j \in 1..Len(result) :
      /\ result[j].hasScore
      /\ result[j].score = ChunkScore(queryWords, ToLower(result[j].content))

\* C10: the caller's chunks array holds the same chunks, unchanged and in the
\* same order, after the call as before it.
C10_InputNotMutated == rpc = "done" => rChunks = inChunks

\* C11: for any chunks with string content and any query, the call returns a
\* sequence and raises no exception.
C11_NeverThrows == rpc # "threw"

\* C12: empty inputs give an empty result and no error: chunkText returns []
\* for an empty or blank text whatever chunkSize and overlap are, and
\* findRelevantChunks returns [] when chunks is empty or absent or query is
\* empty or absent, whatever topK is.
C12_EmptyInEmptyOut ==
  /\ (pc \notin {"idle", "start"} /\ IsBlank(text)) =>
        pc = "done" /\ chunks = <<>>
  /\ (rpc \notin {"idle", "start"}
        /\ (chunksAbsent \/ Len(inChunks) = 0 \/ queryAbsent \/ Len(query) = 0)) =>
        rpc = "done" /\ result = <<>>

C12_Witness ==
  /\ rpc = "done"
  /\ ~chunksAbsent
  /\ Len(inChunks) > 0
  /\ queryAbsent \/ Len(query) = 0
  /\ topK >= 1
  /\ result = <<>>

\* the last n words of a word list (none when n = 0)
LastWords(words, n) == SubSeq(words, Len(words) - n + 1, Len(words))

\* C13: when the pending chunk is emitted because the next paragraph would
\* push the word count above chunkSize, the new pending chunk is the trailing
\* min(overlap, prevWordCount) words of the emitted chunk, as a segment of
\* their own, followed by the paragraph.  Stated on texts of two paragraphs
\* that each fit and together do not: the first chunk is the first paragraph
\* and the second is the seed, a blank line, and the second paragraph.
C13_OverlapSeed ==
  (pc = "done" /\ Len(InputParagraphs(text)) = 2) =>
    LET first == CleanText(InputParagraphs(text)[1])
        second == CleanText(InputParagraphs(text)[2])
        w1 == ParagraphWords(first)
        w2 == ParagraphWords(second)
        seed == LastWords(w1, Min(overlap, Len(w1)))
    IN  (Len(w1) <= chunkSize /\ Len(w2) <= chunkSize
           /\ Len(w1) + Len(w2) > chunkSize) =>
          /\ Len(chunks) = 2
          /\ chunks[1].content = first
          /\ SplitWhitespace(Trim(chunks[2].content)) = seed \o w2
          /\ Len(seed) > 0 =>
               chunks[2].content =
                 Join(<<Join(seed, <<" ">>), second>>, <<"\n", "\n">>)

\* the emit-and-seed branch of lines 55-73 is about to run
EmitAndSeedEnabled ==
  /\ pc = "loop"
  /\ pIdx <= Len(paragraphs)
  /\ Len(ParagraphWords(paragraphs[pIdx])) <= chunkSize
  /\ currentWordCount + Len(ParagraphWords(paragraphs[pIdx])) > chunkSize
  /\ Len(currentChunk) > 0

\* the words of the k-th window of the running loop (k from 1)
WindowOf(k) == SplitWhitespace(chunks[winBase + k].content)

\* the windows from the k-th on, each without its first overlap words
RECURSIVE WindowTails(_)
WindowTails(k) ==
  IF k > winCount THEN <<>>
  ELSE SubSeq(WindowOf(k), overlap + 1, Len(WindowOf(k))) \o WindowTails(k + 1)

\* C14: the sliding window over a paragraph of W > chunkSize words loses and
\* reorders no word: every window after the first has more than overlap
\* words, starts with the last overlap words of the window before it, and the
\* first window followed by the others without their first overlap words is
\* the paragraph's word sequence.
C14_WindowsCoverParagraph ==
  (loop = "paragraph" /\ pc # "window") =>
    /\ \A k \in 2..winCount :
          /\ Len(WindowOf(k)) > overlap
          /\ SubSeq(WindowOf(k), 1, overlap) = LastWords(WindowOf(k - 1), overlap)
    /\ WindowOf(1) \o WindowTails(2) = winWords

C14_Witness ==
  /\ loop = "paragraph"
  /\ pc = "done"
  /\ overlap = 1
  /\ winCount >= 3
  /\ winWords[1] # winWords[2]
  /\ winWords[2] # winWords[3]

\* C15: for a non-blank text the cleaned text holds no newline and there is
\* exactly one paragraph; the emit-and-seed branch and the whole-text fallback
\* never run; the result is one chunk holding the whole cleaned text when it
\* has at most chunkSize words, and otherwise its sliding windows.
C15_SingleParagraph ==
  (pc \notin {"idle", "start"} /\ ~IsBlank(text)) =>
    /\ \A k \in 1..Len(cleanedText) : cleanedText[k] # "\n"
    /\ paragraphs = <<cleanedText>>
    /\ ~EmitAndSeedEnabled
    /\ Len(currentChunk) <= 1
    /\ loop # "fallback"
    /\ pc = "done" =>
          IF WordCount(cleanedText) <= chunkSize
          THEN chunks = <<MakeChunk(cleanedText, 0)>>
          ELSE /\ loop = "paragraph"
               /\ winWords = SplitWhitespace(cleanedText)
               /\ winBase = 0
               /\ Len(chunks) = winCount
               /\ \A k \in 1..winCount :
                     chunks[k] =
                       MakeChunk(Join(Slice(winWords, (k - 1) * (chunkSize - overlap),
                                            (k - 1) * (chunkSize - overlap) + chunkSize),
                                      <<" ">>), k - 1)

C15_Witness ==
  /\ pc = "done"
  /\ Len(InputParagraphs(text)) = 3
  /\ Len(chunks) = 2
  /\ chunkSize = 2

====
